---- MODULE Spec2Model ----
(***************************************************************************)
(* Model of the cache-first chat service: app/main.py (the HTTP handlers), *)
(* app/cache.py (RedisCache), app/ai_engine.py (AIEngine) and              *)
(* app/config.py (Settings).                                                *)
(*                                                                         *)
(* Text is a sequence of one-character strings, so that str.strip(),       *)
(* str.lower(), len() and the f-string concatenations are computed.        *)
(* Every handler is an `async def` without an await, so one handler runs   *)
(* to completion before the next starts: one action per handler.           *)
(***************************************************************************)
EXTENDS Integers, Sequences, FiniteSets, TLC

\* ------------------------------------------------------------------ bounds

\* Largest run of surrounding whitespace in the sampled raw queries.
MaxPad == 1
\* Number of clock steps one default expiration is divided into.
ClockSteps == 2
\* Number of worker processes that serve requests side by side.
MaxWorkers == 2

\* ------------------------------------------------- program constants

\* ChatRequest.query: Field(..., min_length=1, max_length=1000)
min_length == 1
max_length == 1000
\* Settings.CACHE_EXPIRATION default, in seconds
CACHE_EXPIRATION == 600

\* Seconds that pass in one Tick of the model's clock.
TickUnit == CACHE_EXPIRATION \div ClockSteps

\* --------------------------------------------------------------- text

Whitespace == {" ", "\t"}

\* str.lower() on one character of the sampled alphabet
LowerChar(c) ==
    CASE c = "A" -> "a"
      [] c = "B" -> "b"
      [] OTHER -> c

\* str.lower()
lower(s) == [i \in 1..Len(s) |-> LowerChar(s[i])]

\* str.strip(): drop leading and trailing whitespace, keep inner whitespace
strip(s) ==
    IF \A i \in 1..Len(s) : s[i] \in Whitespace THEN <<>>
    ELSE LET lo == CHOOSE i \in 1..Len(s) :
                       s[i] \notin Whitespace /\ \A j \in 1..(i - 1) : s[j] \in Whitespace
             hi == CHOOSE i \in 1..Len(s) :
                       s[i] \notin Whitespace /\ \A j \in (i + 1)..Len(s) : s[j] \in Whitespace
         IN  SubSeq(s, lo, hi)

\* n copies of character c
Repeat(c, n) == [i \in 1..n |-> c]

\* What RedisCache.get gives its caller: None, a str, another JSON value (a
\* list, by its elements), or an exception that leaves the method.
\* Python truthiness: None, "" and [] are falsy.
None == [some |-> FALSE, val |-> <<>>, type |-> "NoneType"]
Some(v) == [some |-> TRUE, val |-> v, type |-> "str"]
SomeList(v) == [some |-> TRUE, val |-> v, type |-> "list"]
Raised(exc) == [some |-> FALSE, val |-> <<>>, type |-> exc]
Truthy(o) == o.some /\ Len(o.val) > 0

\* A byte that is no UTF-8 text, as one element of a stored value.
BadByte == "\\xff"

\* bytes.decode("utf-8", "strict") of a reply, done by the client because of
\* decode_responses=True: fails on a byte that is no UTF-8
utf8_ok(s) == \A i \in 1..Len(s) : s[i] # BadByte

\* json.dumps of a str: the text between double quotes (the sampled
\* alphabet holds no character that needs escaping)
json_dumps(v) == <<"\"">> \o v \o <<"\"">>

\* json.loads: ok with the text between the quotes or the elements between
\* the brackets, or JSONDecodeError
json_loads(s) ==
    IF Len(s) >= 2 /\ s[1] = "\"" /\ s[Len(s)] = "\""
        THEN [ok |-> TRUE, val |-> SubSeq(s, 2, Len(s) - 1), type |-> "str"]
    ELSE IF Len(s) >= 2 /\ s[1] = "[" /\ s[Len(s)] = "]"
        THEN [ok |-> TRUE, val |-> SubSeq(s, 2, Len(s) - 1), type |-> "list"]
    ELSE [ok |-> FALSE, val |-> <<>>, type |-> "NoneType"]

\* ------------------------------------------------------- key derivation

\* generate_cache_key with the query left out of the f-string
generate_cache_key_const(query) == <<"c", "h", "a", "t", ":">>

\* generate_cache_key with the case folding left out
generate_cache_key_nolower(query) == <<"c", "h", "a", "t", ":">> \o strip(query)

\* generate_cache_key with the trimming left out
generate_cache_key_nostrip(query) == <<"c", "h", "a", "t", ":">> \o lower(query)

\* generate_cache_key: f"chat:{query.lower().strip()}"
generate_cache_key(query) == <<"c", "h", "a", "t", ":">> \o strip(lower(query))

\* ------------------------------------------------------------ AIEngine

\* generate_response(query)["response"]: the mock answer, as text chunks
generate_response(query) ==
    <<"AI response to: ">> \o query \o <<". This is a simulated response. In production, connect to actual AI services like OpenAI, Anthropic, etc.">>

\* get_response: the answer, or the apology when generate_response raises
get_response(query, genFails) ==
    IF genFails
        THEN <<"I apologize, but I encountered an error while processing your query: ">> \o query
        ELSE generate_response(query)

\* --------------------------------------------------------------- state

VARIABLES
    pc,            \* "boot" before cache = RedisCache() has run, then "serving" or "crashed"
    redis_client,  \* cache.redis_client: "None" or "client"
    server,        \* the external Redis server: "up", "refusing" (ConnectionError) or "failing" (another RedisError)
    store,         \* the server's keys: key -> [val: serialized text, ttl: seconds left]
    last,          \* the last step taken: its input and what the caller observed
    inflight       \* per worker process: the chat request between its lookup and its store

vars == <<pc, redis_client, server, store, last, inflight>>

ServerStates == {"up", "refusing", "failing"}

\* A query without its letter case and its surrounding whitespace
Normal(raw) == lower(strip(raw))

\* What the step before did to the entry a request for `raw` is about:
\*   "stored":  it was a chat request for the same query (up to letter case and
\*              surrounding whitespace) whose cache.set returned True
\*   "deleted": it was a delete request for the same query that returned True
\*   "flushed": it was a DELETE /cache that answered 200
\*   "expired": it was a clock step in which entries expired, and the server
\*              holds no entry for the query
After(raw) ==
    IF last.op = "chat" /\ last.flag /\ Normal(last.raw) = Normal(raw) THEN "stored"
    ELSE IF last.op = "delete" /\ last.flag /\ Normal(last.raw) = Normal(raw) THEN "deleted"
    ELSE IF last.op = "flush" /\ last.status = 200 THEN "flushed"
    ELSE IF last.op = "tick" /\ last.flag /\ generate_cache_key(raw) \notin DOMAIN store
        THEN "expired"
    ELSE "other"

\* An event: the step taken, its input and what the caller observed.
\*   n:      the parity of the step's number
\*   status: the HTTP status (0 for a step that is no request)
\*   calls:  the collaborator methods the handler called
\*   flag:   what cache.set / cache.delete / cache.health_check returned;
\*           for a clock step, whether an entry expired in it
\*   after:  After(raw), for a chat or delete request
Ev(op, raw, status, cached, response, calls, flag) ==
    [op |-> op, raw |-> raw, status |-> status, cached |-> cached,
     response |-> response, calls |-> calls, flag |-> flag,
     after |-> IF op \in {"chat", "delete"} THEN After(raw) ELSE "other",
     n |-> 1 - last.n]

NoEv ==
    [op |-> "none", raw |-> <<>>, status |-> 0, cached |-> FALSE,
     response |-> <<>>, calls |-> {}, flag |-> FALSE, after |-> "other", n |-> 0]
Step(op) == Ev(op, <<>>, 0, FALSE, <<>>, {}, FALSE)

EmptyStore == [k \in {} |-> [val |-> <<>>, ttl |-> 0]]

\* The worker processes (uvicorn workers, or replicas of the service) that
\* share the server. Within one process a handler has no await and runs to
\* completion; requests of different processes interleave at the store calls.
Workers == 1..MaxWorkers

\* A worker with no chat request in flight.
Idle == [raw |-> <<>>, since |-> "idle"]

\* A chat request that has looked up the cache and missed.
\*   since: the last thing that has happened to its entry since the lookup
\*          "other":   nothing
\*          "stored":  another request for the same query stored its response
\*          "deleted": a delete request for the same query ran on the server
\*          "flushed": a DELETE /cache answered 200
\*          "server":  the server went away or came back
InFlight(raw, since) == [raw |-> raw, since |-> since]

\* the requests in flight for the query of `raw` learn what happened
Mark(fl, raw, what) ==
    [w \in Workers |->
        IF fl[w] # Idle /\ Normal(fl[w].raw) = Normal(raw)
            THEN InFlight(fl[w].raw, what) ELSE fl[w]]
MarkAll(fl, what) ==
    [w \in Workers |-> IF fl[w] # Idle THEN InFlight(fl[w].raw, what) ELSE fl[w]]

\* every step records itself in last
Record(e) == last' = e

\* ---------------------------------------------------------- RedisCache

\* A redis-py call raises a RedisError (ConnectionError, or TimeoutError,
\* ResponseError, ...) exactly when the server is not up.
RedisError == server # "up"

\* RedisCache.get returning the stored text without json.loads
cache_get_raw(key) ==
    IF redis_client = "None" THEN None
    ELSE IF RedisError THEN None
    ELSE IF key \in DOMAIN store /\ Len(store[key].val) > 0
        THEN Some(store[key].val)
    ELSE None

\* RedisCache.get; the except clause names RedisError and JSONDecodeError,
\* so the client's UnicodeDecodeError leaves the method
cache_get(key) ==
    IF redis_client = "None" THEN None
    ELSE IF RedisError THEN None
    ELSE IF key \in DOMAIN store /\ ~utf8_ok(store[key].val)
        THEN Raised("UnicodeDecodeError")
    ELSE IF key \in DOMAIN store /\ Len(store[key].val) > 0
        THEN LET d == json_loads(store[key].val)
             IN  IF ~d.ok THEN None
                 ELSE IF d.type = "str" THEN Some(d.val)
                 ELSE SomeList(d.val)
    ELSE None

\* RedisCache.set with `return True` in its except clause
cache_set_true(key, value) ==
    IF redis_client = "None" THEN [ret |-> FALSE, store |-> store]
    ELSE IF RedisError THEN [ret |-> TRUE, store |-> store]
    ELSE [ret |-> TRUE,
          store |-> (key :> [val |-> json_dumps(value), ttl |-> CACHE_EXPIRATION]) @@ store]

\* RedisCache.set storing with xx=True: only a key that exists is written
cache_set_xx(key, value) ==
    IF redis_client = "None" THEN [ret |-> FALSE, store |-> store]
    ELSE IF RedisError THEN [ret |-> FALSE, store |-> store]
    ELSE IF key \notin DOMAIN store THEN [ret |-> FALSE, store |-> store]
    ELSE [ret |-> TRUE,
          store |-> (key :> [val |-> json_dumps(value), ttl |-> CACHE_EXPIRATION]) @@ store]

\* RedisCache.set storing with psetex: the expiration taken as milliseconds
cache_set_psetex(key, value) ==
    IF redis_client = "None" THEN [ret |-> FALSE, store |-> store]
    ELSE IF RedisError THEN [ret |-> FALSE, store |-> store]
    ELSE [ret |-> TRUE,
          store |-> (key :> [val |-> json_dumps(value), ttl |-> 1]) @@ store]

\* RedisCache.set with expiration=None: [ret: the bool returned, store: the keys afterwards]
cache_set(key, value) ==
    IF redis_client = "None" THEN [ret |-> FALSE, store |-> store]
    ELSE IF RedisError THEN [ret |-> FALSE, store |-> store]
    ELSE [ret |-> TRUE,
          store |-> (key :> [val |-> json_dumps(value), ttl |-> CACHE_EXPIRATION]) @@ store]

\* RedisCache.delete removing every key
cache_delete_flush(key) ==
    IF redis_client = "None" THEN [ret |-> FALSE, store |-> store]
    ELSE IF RedisError THEN [ret |-> FALSE, store |-> store]
    ELSE [ret |-> key \in DOMAIN store, store |-> EmptyStore]

\* RedisCache.delete returning `result >= 0`
cache_delete_always(key) ==
    IF redis_client = "None" THEN [ret |-> FALSE, store |-> store]
    ELSE IF RedisError THEN [ret |-> FALSE, store |-> store]
    ELSE [ret |-> TRUE,
          store |-> [k \in DOMAIN store \ {key} |-> store[k]]]

\* RedisCache.delete: [ret: result > 0, store: the keys afterwards]
cache_delete(key) ==
    IF redis_client = "None" THEN [ret |-> FALSE, store |-> store]
    ELSE IF RedisError THEN [ret |-> FALSE, store |-> store]
    ELSE [ret |-> key \in DOMAIN store,
          store |-> [k \in DOMAIN store \ {key} |-> store[k]]]

\* RedisCache.health_check pinging over a fresh connection when the client
\* built at start-up is missing
health_check_reconnect == ~RedisError

\* RedisCache.health_check answering from the client object, without a ping
health_check_noping == redis_client # "None"

\* RedisCache.health_check
health_check ==
    IF redis_client = "None" THEN FALSE
    ELSE IF RedisError THEN FALSE
    ELSE TRUE

\* ------------------------------------------------------------ handlers

\* ChatRequest: pydantic checks the raw query's length before the handler runs
ChatRequest(raw) == Len(raw) >= min_length /\ Len(raw) <= max_length

\* the miss path that looks the key up once more before it generates
chat_miss_recheck(raw, genFails) ==
    LET query == strip(raw)
        cache_key == generate_cache_key(query)
        again == cache_get(cache_key)
        ai_response == get_response(query, genFails)
        stored == cache_set(cache_key, ai_response)
    IN  IF Truthy(again)
            THEN [status |-> 200, cached |-> TRUE, response |-> again.val,
                  calls |-> {"get"}, set |-> FALSE, store |-> store]
            ELSE [status |-> 200, cached |-> FALSE, response |-> ai_response,
                  calls |-> {"get", "generate", "set"}, set |-> stored.ret,
                  store |-> stored.store]

\* chat_endpoint after the lookup missed: generate, store, answer
chat_miss(raw, genFails) ==
    LET query == strip(raw)
        cache_key == generate_cache_key(query)
        ai_response == get_response(query, genFails)
        stored == cache_set(cache_key, ai_response)
    IN  [status |-> 200, cached |-> FALSE, response |-> ai_response,
         calls |-> {"get", "generate", "set"}, set |-> stored.ret,
         store |-> stored.store]

\* chat_endpoint that stores the cached response again on a hit
\* (a sliding expiration)
chat_endpoint_refresh(raw, genFails) ==
    LET query == strip(raw)
        cache_key == generate_cache_key(query)
        cached_response == cache_get(cache_key)
        ai_response == get_response(query, genFails)
        stored == cache_set(cache_key, ai_response)
    IN  IF query = <<>>
            THEN [status |-> 500, cached |-> FALSE, response |-> <<>>,
                  calls |-> {}, set |-> FALSE, store |-> store]
        ELSE IF cached_response.type = "UnicodeDecodeError"
            THEN [status |-> 500, cached |-> FALSE, response |-> <<>>,
                  calls |-> {"get"}, set |-> FALSE, store |-> store]
        ELSE IF Truthy(cached_response) /\ cached_response.type # "str"
            THEN [status |-> 500, cached |-> FALSE, response |-> <<>>,
                  calls |-> {"get"}, set |-> FALSE, store |-> store]
        ELSE IF Truthy(cached_response)
            THEN [status |-> 200, cached |-> TRUE, response |-> cached_response.val,
                  calls |-> {"get"}, set |-> FALSE,
                  store |-> cache_set(cache_key, cached_response.val).store]
        ELSE [status |-> 200, cached |-> FALSE, response |-> ai_response,
              calls |-> {"get", "generate", "set"}, set |-> stored.ret,
              store |-> stored.store]

\* chat_endpoint on a request that passed ChatRequest:
\* [status, cached, response, calls, set: what cache.set returned, store]
chat_endpoint(raw, genFails) ==
    LET query == strip(raw)
        cache_key == generate_cache_key(query)
        cached_response == cache_get(cache_key)
    IN  IF query = <<>>
            \* HTTPException(400) is raised inside the try and caught by
            \* `except Exception`, which raises HTTPException(500)
            THEN [status |-> 500, cached |-> FALSE, response |-> <<>>,
                  calls |-> {}, set |-> FALSE, store |-> store]
        ELSE IF cached_response.type = "UnicodeDecodeError"
            \* cache.get raises inside the try: `except Exception` answers 500
            THEN [status |-> 500, cached |-> FALSE, response |-> <<>>,
                  calls |-> {"get"}, set |-> FALSE, store |-> store]
        ELSE IF Truthy(cached_response) /\ cached_response.type # "str"
            \* ChatResponse(response=<list>) fails validation inside the try:
            \* `except Exception` answers 500
            THEN [status |-> 500, cached |-> FALSE, response |-> <<>>,
                  calls |-> {"get"}, set |-> FALSE, store |-> store]
        ELSE IF Truthy(cached_response)
            THEN [status |-> 200, cached |-> TRUE, response |-> cached_response.val,
                  calls |-> {"get"}, set |-> FALSE, store |-> store]
        ELSE chat_miss(raw, genFails)

\* POST /chat: validation, then the handler
post_chat(raw, genFails) ==
    IF ChatRequest(raw) THEN chat_endpoint(raw, genFails)
    ELSE [status |-> 422, cached |-> FALSE, response |-> <<>>,
          calls |-> {}, set |-> FALSE, store |-> store]

\* DELETE /cache/{query}: [status, flag, store]
delete_cache(query) ==
    LET cache_key == generate_cache_key(query)
        d == cache_delete(cache_key)
    IN  [status |-> IF d.ret THEN 200 ELSE 404, flag |-> d.ret, store |-> d.store]

\* clear_cache without the flushdb() call
clear_cache_noflush ==
    IF redis_client # "None"
        THEN [status |-> 200, calls |-> {}, store |-> store]
        ELSE [status |-> 500, calls |-> {}, store |-> store]

\* DELETE /cache: [status, calls, store]; an error raised by flushdb() is
\* not caught and the framework answers 500
clear_cache ==
    IF redis_client # "None"
        THEN IF RedisError
                THEN [status |-> 500, calls |-> {"flushdb"}, store |-> store]
                ELSE [status |-> 200, calls |-> {"flushdb"}, store |-> EmptyStore]
        ELSE [status |-> 500, calls |-> {}, store |-> store]

\* ------------------------------------------------------ sampled inputs

Cores == {<<"a">>, <<"A">>, <<"B", " ", "a">>}

\* a core between up to MaxPad spaces and up to MaxPad tabs
Padded ==
    {Repeat(" ", l) \o c \o Repeat("\t", r) : l \in 0..MaxPad, r \in 0..MaxPad, c \in Cores}

\* nothing but whitespace
Blank == {Repeat(" ", n) : n \in 0..MaxPad}

\* queries around the length limit
Long ==
    {<<"a">> \o Repeat(" ", max_length - 1),
     <<"a">> \o Repeat(" ", max_length),
     Repeat("a", max_length + 1)}

RawQueries == Padded \cup Blank

\* ------------------------------------------------------------- actions

Init ==
    /\ pc = "boot"
    /\ redis_client = "None"
    /\ server \in ServerStates
    /\ store = EmptyStore
    /\ last = NoEv
    /\ inflight = [w \in Workers |-> Idle]

\* cache = RedisCache(): __init__ and _connect. Only redis.ConnectionError is
\* caught; another RedisError from ping() leaves the module import failing.
Connect ==
    /\ pc = "boot"
    /\ pc' = IF server = "failing" THEN "crashed" ELSE "serving"
    /\ redis_client' = IF server = "up" THEN "client" ELSE "None"
    /\ Record(Step("connect"))
    /\ UNCHANGED <<server, store>>

\* POST /chat with a body drawn from Q; the generator raises or not
ChatOn(Q) ==
    /\ pc = "serving"
    /\ \E raw \in Q, genFails \in BOOLEAN :
        LET r == post_chat(raw, genFails)
        IN  /\ store' = r.store
            /\ Record(Ev("chat", raw, r.status, r.cached, r.response, r.calls, r.set))
    /\ UNCHANGED <<pc, redis_client, server>>

Chat == ChatOn(RawQueries)

DeleteCache ==
    /\ pc = "serving"
    /\ \E raw \in RawQueries :
        LET r == delete_cache(raw)
        IN  /\ store' = r.store
            /\ Record(Ev("delete", raw, r.status, FALSE, <<>>, {"delete"}, r.flag))
    /\ UNCHANGED <<pc, redis_client, server>>

ClearCache ==
    /\ pc = "serving"
    /\ LET r == clear_cache
       IN  /\ store' = r.store
           /\ Record(Ev("flush", <<>>, r.status, FALSE, <<>>, r.calls, FALSE))
    /\ UNCHANGED <<pc, redis_client, server>>

HealthCheck ==
    /\ pc = "serving"
    /\ Record(Ev("health", <<>>, 200, FALSE, <<"healthy">>, {"ping"}, health_check))
    /\ UNCHANGED <<pc, redis_client, server, store>>

\* TickUnit seconds pass: the server expires the entries whose TTL has run out
Tick ==
    /\ DOMAIN store # {}
    /\ LET live == {k \in DOMAIN store : store[k].ttl - TickUnit > 0}
       IN  /\ store' = [k \in live |-> [store[k] EXCEPT !.ttl = @ - TickUnit]]
           /\ Record(Ev("tick", <<>>, 0, FALSE, <<>>, {}, live # DOMAIN store))
    /\ UNCHANGED <<pc, redis_client, server>>

\* the external server becomes unreachable or comes back; once serving,
\* every handler treats any RedisError alike, so one failing state is enough
ServerChange ==
    /\ pc = "serving"
    /\ server' = IF server = "up" THEN "refusing" ELSE "up"
    /\ Record(Step("server"))
    /\ UNCHANGED <<pc, redis_client, store>>

\* One process: every request is handled from its first line to its answer.
Next ==
    \/ Connect /\ UNCHANGED inflight
    \/ Chat /\ UNCHANGED inflight
    \/ DeleteCache /\ UNCHANGED inflight
    \/ ClearCache /\ UNCHANGED inflight
    \/ HealthCheck /\ UNCHANGED inflight
    \/ Tick /\ UNCHANGED inflight
    \/ ServerChange /\ UNCHANGED inflight

Spec == Init /\ [][Next]_vars

\* The same service driven with bodies around ChatRequest's length limit
ChatLimits == ChatOn(RawQueries \cup Long)

NextLimits ==
    \/ Connect /\ UNCHANGED inflight
    \/ ChatLimits /\ UNCHANGED inflight
    \/ Tick /\ UNCHANGED inflight
    \/ ServerChange /\ UNCHANGED inflight

LimitSpec == Init /\ [][NextLimits]_vars

\* ------------------------------------- values written by other clients

\* Values that RedisCache.set never writes: text that is no JSON, a JSON
\* list, an empty JSON list, and bytes that are no UTF-8.
Foreign ==
    { <<"{", "b">>,
      <<"[", "1", "]">>,
      <<"[", "]">>,
      <<"\"", BadByte, "\"">> }

\* Another client of the server (redis-cli, another service, an older
\* version of this one) sets a key of this service to a foreign value.
ExternalWrite ==
    /\ pc = "serving"
    /\ server = "up"
    /\ \E raw \in Cores, v \in Foreign :
        /\ store' = (generate_cache_key(raw) :> [val |-> v, ttl |-> CACHE_EXPIRATION]) @@ store
        /\ Record(Ev("write", raw, 0, FALSE, v, {}, TRUE))
    /\ UNCHANGED <<pc, redis_client, server, inflight>>

NextCorrupt ==
    \/ Connect /\ UNCHANGED inflight
    \/ ChatOn(Cores) /\ UNCHANGED inflight
    \/ ExternalWrite
    \/ ServerChange /\ UNCHANGED inflight

CorruptSpec == Init /\ [][NextCorrupt]_vars

\* ------------------------------------------- several worker processes

\* the queries the concurrent requests are about: two spellings of one key
\* and another key
ConcQueries == Cores

\* chat_endpoint up to the lookup (validation, key, cache.get): a request
\* that is rejected or hits is answered at once, one that misses is in flight
Lookup(w) ==
    /\ pc = "serving"
    /\ inflight[w] = Idle
    /\ \E raw \in ConcQueries :
        LET r == post_chat(raw, FALSE)
        IN  IF r.status = 200 /\ ~r.cached
                THEN /\ inflight' = [inflight EXCEPT ![w] = InFlight(raw, "other")]
                     /\ UNCHANGED <<store, last>>
                ELSE /\ Record(Ev("chat", raw, r.status, r.cached, r.response, r.calls, r.set))
                     /\ UNCHANGED <<store, inflight>>
    /\ UNCHANGED <<pc, redis_client, server>>

\* chat_endpoint from the generator call to the answer, for the request in
\* flight at w; the event's `after` is what happened since its lookup
Finish(w) ==
    /\ pc = "serving"
    /\ inflight[w] # Idle
    /\ \E genFails \in BOOLEAN :
        LET raw == inflight[w].raw
            r == chat_miss(raw, genFails)
            e == Ev("chat", raw, r.status, r.cached, r.response, r.calls, r.set)
            done == [inflight EXCEPT ![w] = Idle]
        IN  /\ store' = r.store
            /\ Record([e EXCEPT !.after = inflight[w].since])
            /\ inflight' = IF r.set THEN Mark(done, raw, "stored") ELSE done
    /\ UNCHANGED <<pc, redis_client, server>>

\* DELETE /cache/{query} by any process
ConcDelete ==
    /\ pc = "serving"
    /\ \E raw \in ConcQueries :
        LET r == delete_cache(raw)
        IN  /\ store' = r.store
            /\ Record(Ev("delete", raw, r.status, FALSE, <<>>, {"delete"}, r.flag))
            /\ inflight' = IF redis_client = "client" /\ server = "up"
                                THEN Mark(inflight, raw, "deleted") ELSE inflight
    /\ UNCHANGED <<pc, redis_client, server>>

\* DELETE /cache by any process
ConcFlush ==
    /\ ClearCache
    /\ inflight' = IF clear_cache.status = 200 THEN MarkAll(inflight, "flushed") ELSE inflight

\* the server goes away or comes back while requests are in flight
ConcServerChange ==
    /\ ServerChange
    /\ inflight' = MarkAll(inflight, "server")

NextConc ==
    \/ Connect /\ UNCHANGED inflight
    \/ \E w \in Workers : Lookup(w)
    \/ \E w \in Workers : Finish(w)
    \/ ConcDelete
    \/ ConcFlush
    \/ ConcServerChange

ConcSpec == Init /\ [][NextConc]_vars

\* ------------------------------------------------------------- notions

\* the store answers: a client was built at start-up and the server is up
Available == redis_client = "client" /\ server = "up"

\* the last step was a POST /chat / a DELETE /cache/{query}
IsChat == last.op = "chat"
IsDelete == last.op = "delete"

\* the request's query is non-empty after trimming and the body passed validation
Served(e) == ChatRequest(e.raw) /\ strip(e.raw) # <<>>

\* the generator raised while the request e was handled
GenFailed(e) ==
    /\ e.op = "chat"
    /\ "generate" \in e.calls
    /\ e.response = get_response(strip(e.raw), TRUE)

\* a chat request that missed and whose cache.set returned True
MissStored(e) == e.op = "chat" /\ e.status = 200 /\ ~e.cached /\ e.flag

\* ------------------------------------------------------------- claims

\* C1: a generator failure is never cached: when the generator failed for a
\* query, the chat request that immediately follows for the same query is not
\* answered from the cache and calls the generator again.
C1_FailureNeverCached ==
    [][(GenFailed(last) /\ last'.op = "chat" /\ last'.raw = last.raw)
          => (~last'.cached /\ "generate" \in last'.calls)]_vars

\* C2: a query that is empty after trimming is answered with a client error
\* (a 4xx status, never a 500) and no store or generator call is made.
C2_EmptyRejectedAsClientError ==
    (IsChat /\ strip(last.raw) = <<>>)
        => (last.status \in 400..499 /\ last.calls = {})

\* C3: cache round trip: when a chat request for q missed and stored R, the
\* chat request for q that immediately follows is a hit that returns R and
\* does not call the generator.
C3_RoundTrip ==
    [][(MissStored(last) /\ last'.op = "chat" /\ last'.raw = last.raw)
          => /\ last'.status = 200
             /\ last'.cached
             /\ last'.response = last.response
             /\ "generate" \notin last'.calls]_vars

\* a hit on the entry the request just before stored for the same raw query
C3_Witness ==
    /\ IsChat /\ last.cached /\ last.after = "stored"
    /\ last.response \in {get_response(strip(last.raw), f) : f \in BOOLEAN}

\* C4: when a chat request for q1 missed and stored, the immediately
\* following chat request for a q2 that differs from q1 only by letter case or
\* surrounding whitespace is a hit returning the response the first stored.
C4_CaseWhitespaceInsensitiveHit ==
    [][(/\ MissStored(last)
        /\ last'.op = "chat"
        /\ last'.raw # last.raw
        /\ Normal(last'.raw) = Normal(last.raw))
          => /\ last'.status = 200
             /\ last'.cached
             /\ last'.response = last.response]_vars

\* a hit that returns what a differently written query stored just before
C4_Witness ==
    /\ IsChat /\ last.cached /\ last.after = "stored"
    /\ last.response \notin {get_response(strip(last.raw), f) : f \in BOOLEAN}

\* C5: the key of every query handled is "chat:" followed by the lower-cased,
\* trimmed query; it is unchanged by trimming or lower-casing the query first;
\* every sampled query that differs only by letter case or surrounding
\* whitespace has the same key; and the key the chat path derives (from the
\* trimmed query) is the key the invalidate path derives (from the raw one).
C5_DeriveKey ==
    (IsChat \/ IsDelete) =>
        LET q == last.raw
        IN  /\ generate_cache_key(q) = <<"c", "h", "a", "t", ":">> \o lower(strip(q))
            /\ generate_cache_key(q) = generate_cache_key(strip(q))
            /\ generate_cache_key(q) = generate_cache_key(lower(q))
            /\ \A q2 \in RawQueries :
                  Normal(q2) = Normal(q) => generate_cache_key(q2) = generate_cache_key(q)

\* a handled query with both surrounding whitespace and an upper-case letter
C5_Witness ==
    /\ (IsChat \/ IsDelete)
    /\ strip(last.raw) # last.raw
    /\ lower(last.raw) # last.raw
    /\ Len(strip(last.raw)) > 1

\* C6: invalidation. A delete request for q while the store is available
\* and holds the entry a chat request for q stores (in particular right after
\* such a chat request stored it) answers 200 / true; a delete that answers
\* true has removed the key; the delete request for the same query right
\* after it answers 404 / false; and the chat request for the same query right
\* after a successful delete misses and calls the generator.
C6_Invalidation ==
    [][/\ (/\ last'.op = "delete"
            /\ Available
            /\ generate_cache_key(strip(last'.raw)) \in DOMAIN store) =>
               (last'.status = 200 /\ last'.flag)
       /\ (last'.op = "delete" /\ last'.after = "stored") =>
               (last'.status = 200 /\ last'.flag)
       /\ (last'.op = "delete" /\ last'.flag) =>
               /\ last'.status = 200
               /\ generate_cache_key(last'.raw) \in DOMAIN store
               /\ generate_cache_key(last'.raw) \notin DOMAIN store'
       /\ (last'.op = "delete" /\ last'.after = "deleted") =>
               (last'.status = 404 /\ ~last'.flag /\ store' = store)
       /\ (last'.op = "chat" /\ last'.after = "deleted") =>
               (last'.status = 200 /\ ~last'.cached /\ "generate" \in last'.calls)]_vars

\* the second of two delete requests for the same query
C6_Witness == IsDelete /\ last.after = "deleted" /\ last.status = 404

\* the keys of the sampled queries
SampleKeys == {generate_cache_key(q) : q \in RawQueries}

\* C7: degraded mode. While the store is unavailable every chat request with
\* a valid query answers 200 with cached = false and calls the generator, and
\* get returns None, set and delete return False and change nothing, and
\* health_check returns False.
C7_DegradedMode ==
    (pc = "serving" /\ ~Available) =>
        /\ (IsChat /\ Served(last)) =>
              /\ last.status = 200
              /\ ~last.cached
              /\ "generate" \in last.calls
              /\ last.response \in {get_response(strip(last.raw), f) : f \in BOOLEAN}
        /\ \A k \in SampleKeys :
              /\ cache_get(k) = None
              /\ cache_set(k, <<"x">>) = [ret |-> FALSE, store |-> store]
              /\ cache_delete(k) = [ret |-> FALSE, store |-> store]
        /\ ~health_check

\* a chat request served while the server holds its entry but cannot be reached
C7_Witness ==
    /\ pc = "serving" /\ ~Available
    /\ IsChat /\ last.status = 200
    /\ generate_cache_key(last.raw) \in DOMAIN store

\* C8: a hit leaves the store unchanged: it makes no cache.set and no
\* generator call and every entry keeps its value and its remaining TTL; the
\* only step that raises the remaining TTL of a key is a chat miss that stores
\* under that key, so hits never postpone an entry's expiry.
C8_HitLeavesStore ==
    [][/\ (last'.op = "chat" /\ last'.cached) =>
            (store' = store /\ last'.calls = {"get"})
       /\ \A k \in DOMAIN store' :
            (k \notin DOMAIN store \/ store'[k].ttl > store[k].ttl) =>
                /\ last'.op = "chat" /\ ~last'.cached /\ "set" \in last'.calls
                /\ k = generate_cache_key(last'.raw)
                /\ store'[k].ttl = CACHE_EXPIRATION]_vars

\* a hit on an entry part of whose TTL has already run out
C8_Witness ==
    /\ IsChat /\ last.cached
    /\ store[generate_cache_key(last.raw)].ttl < CACHE_EXPIRATION

\* C9: DELETE /cache with the store available answers 200 and leaves no key,
\* and the chat request right after it misses; with the store unavailable it
\* answers 500 and the keys are what they were.
C9_FlushAll ==
    [][/\ (last'.op = "flush" /\ Available) =>
            (last'.status = 200 /\ DOMAIN store' = {})
       /\ (last'.op = "flush" /\ ~Available) =>
            (last'.status = 500 /\ store' = store)
       /\ (last'.op = "chat" /\ last'.after = "flushed" /\ Served(last')) =>
            (last'.status = 200 /\ ~last'.cached /\ "generate" \in last'.calls)]_vars

\* a chat request that misses right after a flush and stores its entry anew
C9_Witness ==
    /\ IsChat /\ last.after = "flushed" /\ last.status = 200 /\ ~last.cached
    /\ generate_cache_key(last.raw) \in DOMAIN store

\* C10: a chat request is accepted exactly when the length of its query after
\* trimming is between 1 and 1000, and a rejected one makes no store or
\* generator call.
C10_ValidIffTrimmedLength ==
    IsChat =>
        /\ (last.status = 200) <=> (Len(strip(last.raw)) \in 1..max_length)
        /\ (last.status # 200) => last.calls = {}

\* C11: GET /health never fails: it answers 200 with the fixed status
\* "healthy" and a connected flag that is true exactly when a client exists
\* and its ping succeeds, false when there is no client or the ping raises.
C11_HealthStatus ==
    last.op = "health" =>
        /\ last.status = 200
        /\ last.response = <<"healthy">>
        /\ last.flag = (redis_client = "client" /\ ~RedisError)

\* a health request answered while the client exists and its ping raises
C11_Witness ==
    last.op = "health" /\ redis_client = "client" /\ RedisError /\ ~last.flag

\* C12: the connection attempt at start-up never raises: whatever the
\* server answers to the first ping, the service is serving afterwards, with a
\* client exactly when the ping succeeded.
C12_ConnectNeverRaises ==
    last.op = "connect" =>
        /\ pc = "serving"
        /\ redis_client = (IF server = "up" THEN "client" ELSE "None")

\* C13: no reconnect. A service that started without a client never gets
\* one, also when the server is reachable again: get returns None, set and
\* delete return False, health_check returns False, the server's keys stay as
\* they are and no chat request is answered from the cache.
C13_NoReconnect ==
    [][(pc = "serving" /\ redis_client = "None") =>
          /\ redis_client' = "None"
          /\ store' = store
          /\ last'.op = "chat" => ~last'.cached
          /\ last'.op = "health" => ~last'.flag
          /\ \A k \in SampleKeys :
                /\ cache_get(k) = None
                /\ ~cache_set(k, <<"x">>).ret
                /\ ~cache_delete(k).ret
          /\ ~health_check]_vars

\* a chat request served without a client while the server is up again
C13_Witness ==
    /\ pc = "serving" /\ redis_client = "None" /\ server = "up"
    /\ IsChat /\ last.status = 200 /\ ~last.cached

\* C17: every entry a chat request writes holds the request's response and
\* the default TTL of CACHE_EXPIRATION seconds, whatever was under the key; no
\* entry is ever left with more than that or with none; a clock step takes
\* its seconds off every entry and removes those whose TTL has run out; and a
\* chat request that finds its key gone misses, calls the generator and
\* stores the entry again.
C17_DefaultTTL ==
    [][/\ (last'.op = "chat" /\ ~last'.cached /\ last'.flag) =>
             store'[generate_cache_key(last'.raw)] =
                 [val |-> json_dumps(last'.response), ttl |-> CACHE_EXPIRATION]
       /\ \A k \in DOMAIN store' : store'[k].ttl \in 1..CACHE_EXPIRATION
       /\ last'.op = "tick" =>
             \A k \in DOMAIN store :
                 IF store[k].ttl <= TickUnit
                     THEN k \notin DOMAIN store'
                     ELSE store'[k] = [store[k] EXCEPT !.ttl = @ - TickUnit]
       /\ (/\ last'.op = "chat" /\ Served(last') /\ Available
           /\ generate_cache_key(last'.raw) \notin DOMAIN store) =>
             /\ ~last'.cached
             /\ "generate" \in last'.calls
             /\ generate_cache_key(last'.raw) \in DOMAIN store'
       /\ (last'.op = "chat" /\ last'.after = "expired" /\ Served(last')) =>
             (~last'.cached /\ "generate" \in last'.calls)]_vars

\* a chat request that stores its entry again right after the clock step
\* that emptied the store
C17_Witness ==
    /\ IsChat /\ last.after = "expired" /\ ~last.cached /\ last.flag
    /\ DOMAIN store = {generate_cache_key(last.raw)}

\* C18: no false hits. A chat request answered from the cache returns the
\* value the server holds under its key, and that value is the answer the
\* generator gave to a query with the same normal form; every entry of the
\* server is the answer to a query whose key it is stored under.
C18_NoFalseHits ==
    /\ (IsChat /\ last.cached) =>
          /\ generate_cache_key(last.raw) \in DOMAIN store
          /\ store[generate_cache_key(last.raw)].val = json_dumps(last.response)
          /\ \E q \in RawQueries, f \in BOOLEAN :
                /\ Normal(q) = Normal(last.raw)
                /\ last.response = get_response(strip(q), f)
    /\ \A k \in DOMAIN store :
          \E q \in RawQueries, f \in BOOLEAN :
              /\ k = <<"c", "h", "a", "t", ":">> \o Normal(q)
              /\ store[k].val = json_dumps(get_response(strip(q), f))

\* a hit while the server also holds the entry of another query
C18_Witness ==
    IsChat /\ last.cached /\ Cardinality(DOMAIN store) >= 2

\* C19: invalidate frame. A delete request changes no entry but the one
\* under its own key: every other entry keeps its value and TTL and no entry
\* appears; a delete that returns false leaves every entry as it was.
C19_InvalidateFrame ==
    [][last'.op = "delete" =>
          /\ DOMAIN store \ {generate_cache_key(last'.raw)} \subseteq DOMAIN store'
          /\ DOMAIN store' \subseteq DOMAIN store
          /\ \A k \in DOMAIN store' : store'[k] = store[k]
          /\ ~last'.flag => store' = store]_vars

\* a delete that removed its entry and left another one
C19_Witness ==
    IsDelete /\ last.flag /\ DOMAIN store # {}

\* a worker's request in flight is completed by the step
Finishes(w) == inflight[w] # Idle /\ inflight'[w] = Idle

\* C14: a store failure during set on the miss path is swallowed. When the
\* server fails the setex of a request that missed, set returns False, the
\* request still answers 200 with cached = false and the freshly generated
\* response, and the store content is unchanged.
C14_SetFailureSwallowed ==
    [][\A w \in Workers :
          (Finishes(w) /\ redis_client = "client" /\ server # "up") =>
              /\ last'.op = "chat"
              /\ last'.raw = inflight[w].raw
              /\ last'.status = 200
              /\ ~last'.cached
              /\ ~last'.flag
              /\ {"generate", "set"} \subseteq last'.calls
              /\ \E f \in BOOLEAN :
                    last'.response = get_response(strip(last'.raw), f)
              /\ store' = store]_vars

\* a request whose lookup reached the server and whose set then failed
\* because the server went away in between
C14_Witness ==
    /\ IsChat /\ last.status = 200 /\ ~last.cached
    /\ "set" \in last.calls /\ ~last.flag
    /\ last.after = "server"
    /\ redis_client = "client" /\ server = "refusing"

\* C16: concurrent misses on one key. No request is answered from the cache
\* while the key has no entry, so requests that look up before any has stored
\* all miss; each request in flight calls the generator and set and answers
\* cached = false, whatever the others have stored meanwhile; the entry left
\* by a request's set is that request's response (the later write wins); and
\* completing one request leaves the others for the key in flight.
C16_ConcurrentMisses ==
    [][/\ (last' # last /\ last'.op = "chat" /\ last'.cached) =>
              generate_cache_key(last'.raw) \in DOMAIN store
       /\ \A w \in Workers :
              Finishes(w) =>
                  /\ last'.op = "chat"
                  /\ last'.raw = inflight[w].raw
                  /\ last'.after = inflight[w].since
                  /\ last'.status = 200
                  /\ ~last'.cached
                  /\ last'.calls = {"get", "generate", "set"}
                  /\ (redis_client = "client" /\ server = "up") =>
                        /\ last'.flag
                        /\ generate_cache_key(last'.raw) \in DOMAIN store'
                        /\ store'[generate_cache_key(last'.raw)] =
                              [val |-> json_dumps(last'.response),
                               ttl |-> CACHE_EXPIRATION]
                  /\ \A v \in Workers \ {w} :
                        inflight[v] # Idle =>
                            /\ inflight'[v] # Idle
                            /\ inflight'[v].raw = inflight[v].raw]_vars

\* a request that missed, during whose generation another request for the
\* same key stored its response, and that stored its own response over it
C16_Witness ==
    /\ IsChat /\ ~last.cached /\ last.flag
    /\ last.after = "stored"
    /\ store[generate_cache_key(last.raw)].val = json_dumps(last.response)

\* a request that missed and completed after a delete request for its query
\* or a flush ran on the available server
Invalidated(e) ==
    /\ e.op = "chat" /\ e.status = 200 /\ ~e.cached
    /\ e.after \in {"deleted", "flushed"}

\* C20: invalidate versus in-flight miss. An invalidate or flush that runs
\* between a request's lookup and its store does not cancel the store: once
\* the request has completed on an available store, the entry is present
\* under the key with that request's response, and the chat request for the
\* key that follows is a hit with that response.
C20_InvalidateVsInFlight ==
    /\ []((Invalidated(last) /\ Available) =>
              /\ last.flag
              /\ generate_cache_key(last.raw) \in DOMAIN store
              /\ store[generate_cache_key(last.raw)] =
                    [val |-> json_dumps(last.response), ttl |-> CACHE_EXPIRATION])
    /\ [][(Invalidated(last) /\ Available) =>
              /\ \A w \in Workers :
                    (inflight[w] = Idle /\ inflight'[w] # Idle) =>
                        Normal(inflight'[w].raw) # Normal(last.raw)
              /\ (last'.op = "chat" /\ inflight' = inflight
                     /\ Normal(last'.raw) = Normal(last.raw)) =>
                    /\ last'.cached
                    /\ last'.response = last.response]_vars

\* a request completed after an invalidation ran during its flight, and its
\* entry is on the server
C20_Witness ==
    /\ Invalidated(last) /\ last.flag
    /\ generate_cache_key(last.raw) \in DOMAIN store

\* the stored text is not what RedisCache.set writes for any str
Corrupt(v) == ~utf8_ok(v) \/ ~json_loads(v).ok \/ json_loads(v).type # "str"

\* C15: a corrupt or non-decodable value under the key, or a store error
\* during get, is treated as a cache miss: the chat request answers 200 with
\* cached = false, calls the generator and set, and on an available store the
\* entry is overwritten with the fresh response.
C15_CorruptIsMiss ==
    [][(/\ last'.op = "chat" /\ Served(last')
        /\ redis_client = "client"
        /\ \/ RedisError
           \/ /\ generate_cache_key(last'.raw) \in DOMAIN store
              /\ Corrupt(store[generate_cache_key(last'.raw)].val)) =>
           /\ last'.status = 200
           /\ ~last'.cached
           /\ {"generate", "set"} \subseteq last'.calls
           /\ Available =>
                 /\ generate_cache_key(last'.raw) \in DOMAIN store'
                 /\ store'[generate_cache_key(last'.raw)].val =
                       json_dumps(last'.response)]_vars

====
